---- MODULE Spec2Model ----
(***************************************************************************)
(* Model of psd_gui.py: the binary record decoder (parse_bin_file), the    *)
(* CSV round trip (save_to_csv, read_qlong_qshort) and the PSDApp widget   *)
(* (load_file, update_plots, save_spectrum_data, save_psd_data).           *)
(*                                                                         *)
(* Numbers.  qLong, qShort are integers.  psd = 1 - qShort/qLong and the   *)
(* spin-box threshold are IEEE doubles in the program; here a psd value is *)
(* the exact fraction (qLong - qShort)/qLong in lowest terms and the       *)
(* threshold is an integer count of 1/ThresholdScale.  For |qLong| < 2^31  *)
(* two distinct such values differ by more than 4e-14, far above double    *)
(* rounding, so the comparison psd > threshold of the doubles agrees with  *)
(* the comparison of the fractions whenever the fractions differ; the only *)
(* equal pair among the events and thresholds used here is psd = 0.75 =    *)
(* threshold, which the doubles represent exactly.                         *)
(*                                                                         *)
(* Every product below stays under 2^31 for the charges used here (at most *)
(* 100001); unsigned record fields are kept below 2^31.  A bin center is   *)
(* stored as its numerator over the common denominator 2 * NumBins.        *)
(***************************************************************************)
EXTENDS Integers, Sequences, FiniteSets, TLC

VARIABLES
  bin_src,             \* the .bin file picked by the last load: [pre, recs, k]
  records,             \* load_file's local `records` (return of parse_bin_file)
  csv_file,            \* self.csv_file: "None" or the path of the written CSV
  qlong,               \* self.qlong
  qshort,              \* self.qshort
  filter_checked,      \* self.filter_toggle.isChecked()
  threshold,           \* self.threshold_input.value(), in 1/ThresholdScale
  last_spectrum_data,  \* self.last_spectrum_data = (bin_centers, counts)
  last_psd_data,       \* self.last_psd_data
  lastOp,              \* the handler that ran last
  err,                 \* the exception the last handler ended with, or "none"
  io,                  \* the files the last handler opened
  ran                  \* how the last call of update_plots went

vars == <<bin_src, records, csv_file, qlong, qshort, filter_checked, threshold,
          last_spectrum_data, last_psd_data, lastOp, err, io, ran>>

(***************************************************************************)
(* Bounds of the model.                                                    *)
(***************************************************************************)
MaxRecords == 2

(***************************************************************************)
(* Generic helpers.                                                        *)
(***************************************************************************)
Min(a, b) == IF a < b THEN a ELSE b

SubSeqFrom(s, lo, hi) == [i \in 1..(hi - lo + 1) |-> s[lo + i - 1]]

RECURSIVE SumSeq(_)
SumSeq(s) == IF s = <<>> THEN 0 ELSE Head(s) + SumSeq(Tail(s))

RECURSIVE Flatten(_)
Flatten(ss) == IF ss = <<>> THEN <<>> ELSE Head(ss) \o Flatten(Tail(ss))

\* numpy boolean-mask indexing a[mask]
RECURSIVE Compress(_, _)
Compress(a, mask) ==
  IF a = <<>> THEN <<>>
  ELSE (IF Head(mask) THEN <<Head(a)>> ELSE <<>>) \o Compress(Tail(a), Tail(mask))

(***************************************************************************)
(* The record layout '<4B I H Q h h h h i i h I I H 4B'.                   *)
(***************************************************************************)
FieldWidths == <<1, 1, 1, 1, 4, 2, 8, 2, 2, 2, 2, 4, 4, 2, 4, 4, 2, 1, 1, 1, 1>>

FieldSigned == <<FALSE, FALSE, FALSE, FALSE, FALSE, FALSE, FALSE,
                 TRUE, TRUE, TRUE, TRUE, TRUE, TRUE, TRUE,
                 FALSE, FALSE, FALSE, FALSE, FALSE, FALSE, FALSE>>

\* struct.calcsize(record_format)
record_size == SumSeq(FieldWidths)

PreambleSize == 8

\* Little-endian two's-complement bytes of v in w bytes.
RECURSIVE PackInt(_, _)
PackInt(v, w) == IF w = 0 THEN <<>> ELSE <<v % 256>> \o PackInt(v \div 256, w - 1)

\* Little-endian unsigned value of a byte string (zero high bytes cost nothing).
RECURSIVE UnpackUnsigned(_)
UnpackUnsigned(bs) ==
  IF bs = <<>> THEN 0
  ELSE LET hi == UnpackUnsigned(Tail(bs))
       IN  Head(bs) + (IF hi = 0 THEN 0 ELSE 256 * hi)

\* Little-endian signed value: the top byte carries the sign.
RECURSIVE UnpackSigned(_)
UnpackSigned(bs) ==
  IF Len(bs) = 1 THEN (IF bs[1] >= 128 THEN bs[1] - 256 ELSE bs[1])
  ELSE Head(bs) + 256 * UnpackSigned(Tail(bs))

\* Offset of each field inside a record.
FieldOffset == [i \in 1..Len(FieldWidths) |-> SumSeq(SubSeqFrom(FieldWidths, 1, i - 1))]

\* struct.pack(record_format, *values): what the digitizer wrote.
pack(values) == Flatten([i \in 1..Len(FieldWidths) |-> PackInt(values[i], FieldWidths[i])])

\* struct.unpack(record_format, chunk); struct.error when the size is wrong.
unpack(chunk) ==
  IF Len(chunk) # record_size THEN [err |-> "struct.error", values |-> <<>>]
  ELSE [err |-> "none",
        values |-> [i \in 1..Len(FieldWidths) |->
          LET bs == SubSeqFrom(chunk, FieldOffset[i] + 1, FieldOffset[i] + FieldWidths[i])
          IN  IF FieldSigned[i] THEN UnpackSigned(bs) ELSE UnpackUnsigned(bs)]]

\* f.read(n) at position pos of the file data.
FRead(data, pos, n) == SubSeqFrom(data, pos + 1, Min(pos + n, Len(data)))

\* The while-loop of parse_bin_file from file position pos on.
RECURSIVE ReadLoop(_, _, _)
ReadLoop(data, pos, acc) ==
  LET chunk == FRead(data, pos, record_size)
  IN  IF Len(chunk) < record_size THEN [err |-> "none", records |-> acc]
      ELSE LET u == unpack(chunk)
           IN  IF u.err # "none" THEN [err |-> u.err, records |-> acc]
               ELSE ReadLoop(data, pos + record_size, Append(acc, u.values))

\* A decoder that insists on a whole preamble.
parse_bin_file_strict(data) ==
  IF Len(FRead(data, 0, PreambleSize)) < PreambleSize
  THEN [err |-> "FormatError", records |-> <<>>]
  ELSE ReadLoop(data, PreambleSize, <<>>)

\* A decoder that stops only at end of file.
RECURSIVE ReadLoopToEOF(_, _, _)
ReadLoopToEOF(data, pos, acc) ==
  LET chunk == FRead(data, pos, record_size)
  IN  IF Len(chunk) = 0 THEN [err |-> "none", records |-> acc]
      ELSE LET u == unpack(chunk)
           IN  IF u.err # "none" THEN [err |-> u.err, records |-> acc]
               ELSE ReadLoopToEOF(data, pos + record_size, Append(acc, u.values))

parse_bin_file_eof(data) ==
  ReadLoopToEOF(data, Len(FRead(data, 0, PreambleSize)), <<>>)

\* parse_bin_file: skip f.read(8), then read whole records until a short read.
parse_bin_file(data) ==
  ReadLoop(data, Len(FRead(data, 0, PreambleSize)), <<>>)

(***************************************************************************)
(* The CSV round trip.  A text field is a sequence of characters; a CSV    *)
(* file is a header row of column names and the data rows.                 *)
(***************************************************************************)
DigitChars == <<"0", "1", "2", "3", "4", "5", "6", "7", "8", "9">>

RECURSIVE Digits(_)
Digits(n) ==
  IF n < 10 THEN <<DigitChars[n + 1]>>
  ELSE Append(Digits(n \div 10), DigitChars[(n % 10) + 1])

\* str(v) of a Python int, as csv.writer writes it.
IntToStr(v) == IF v < 0 THEN <<"-">> \o Digits(-v) ELSE Digits(v)

DigitValue(c) == (CHOOSE d \in 1..10 : DigitChars[d] = c) - 1

IsDigit(c) == \E d \in 1..10 : DigitChars[d] = c

RECURSIVE DigitsToNat(_)
DigitsToNat(s) ==
  IF s = <<>> THEN 0
  ELSE 10 * DigitsToNat(SubSeqFrom(s, 1, Len(s) - 1)) + DigitValue(s[Len(s)])

\* int(s) of a Python str: an optional sign and decimal digits, else ValueError.
StrToInt(s) ==
  LET signed == s # <<>> /\ s[1] \in {"-", "+"}
      body   == IF signed THEN Tail(s) ELSE s
  IN  IF body = <<>> \/ \E i \in 1..Len(body) : ~IsDigit(body[i])
      THEN [err |-> "ValueError", val |-> 0]
      ELSE [err |-> "none",
            val |-> IF signed /\ s[1] = "-" THEN 0 - DigitsToNat(body)
                    ELSE DigitsToNat(body)]

header == <<"title1_4", "title2_4", "title3_4", "title4_4",
            "deviceId", "channelId", "timestamp",
            "cfd_y1", "cfd_y2", "heigth", "baseline",
            "qLong", "qShort", "psdValue",
            "eventCounter", "eventCounterPSD", "decimationFactor",
            "postfix1", "postfix2", "postfix3", "postfix4">>

\* Path(bin_filename).with_suffix('.csv')
WithSuffixCsv(path) == [path EXCEPT !.suffix = ".csv"]

\* save_to_csv: the file it writes and the name it returns.
save_to_csv(recs, bin_filename) ==
  [name |-> WithSuffixCsv(bin_filename),
   text |-> [header |-> header,
             rows   |-> [r \in 1..Len(recs) |->
                           [c \in 1..Len(recs[r]) |-> IntToStr(recs[r][c])]]]]

\* int(row[name]) of a csv.DictReader row: KeyError when the header has no
\* such column, ValueError when the field is no integer.
IntField(text, row, name) ==
  IF \E c \in 1..Len(text.header) : text.header[c] = name /\ c <= Len(row)
  THEN StrToInt(row[CHOOSE c \in 1..Len(text.header) : text.header[c] = name /\ c <= Len(row)])
  ELSE [err |-> "KeyError", val |-> 0]

\* One row of read_qlong_qshort: ql and qs, or the exception the try block catches.
RowInts(text, row) ==
  LET ql == IntField(text, row, "qLong")
      qs == IntField(text, row, "qShort")
  IN  [except |-> ql.err # "none" \/ qs.err # "none", ql |-> ql.val, qs |-> qs.val]

AllRowInts(text) == [r \in 1..Len(text.rows) |-> RowInts(text, text.rows[r])]

\* np.array(qlong), np.array(qshort) of the rows selected by keep.
AsArrays(rows, keep) ==
  [qlong  |-> [i \in 1..Len(Compress(rows, keep)) |-> Compress(rows, keep)[i].ql],
   qshort |-> [i \in 1..Len(Compress(rows, keep)) |-> Compress(rows, keep)[i].qs]]

\* A reader whose test is ql >= 0.
read_qlong_qshort_zero(text) ==
  LET rows == AllRowInts(text)
  IN  AsArrays(rows, [r \in 1..Len(rows) |->
                        ~rows[r].except /\ rows[r].ql >= 0 /\ rows[r].qs >= 0])

\* read_qlong_qshort: the rows with qLong > 0 and qShort >= 0, in file order.
read_qlong_qshort(text) ==
  LET rows == AllRowInts(text)
  IN  AsArrays(rows, [r \in 1..Len(rows) |->
                        ~rows[r].except /\ rows[r].ql > 0 /\ rows[r].qs >= 0])

(***************************************************************************)
(* Real numbers of update_plots.                                           *)
(***************************************************************************)
ThresholdScale == 10000
ThresholdDefault == 1474
NumBins == 4096
SpectrumMax == 100000

Abs(x) == IF x < 0 THEN 0 - x ELSE x

RECURSIVE GCD(_, _)
GCD(a, b) == IF b = 0 THEN a ELSE GCD(b, a % b)

\* The fraction n/d in lowest terms, d > 0; d = 0 stands for inf and nan.
Frac(n, d) ==
  LET g == GCD(Abs(n), Abs(d))
      sgn == IF d < 0 THEN 0 - 1 ELSE 1
  IN  [n |-> sgn * (n \div g), d |-> sgn * (d \div g)]

\* 1 - (qs / ql) of one element; a zero divisor gives inf or nan.
psd_of(ql, qs) == IF ql = 0 THEN [n |-> 0 - qs, d |-> 0] ELSE Frac(ql - qs, ql)

\* np.isfinite
isfinite(x) == x.d # 0

\* x > threshold, threshold counted in 1/ThresholdScale
GreaterThan(x, thr) == x.n * ThresholdScale > thr * x.d

\* x >= threshold
AtLeast(x, thr) == x.n * ThresholdScale >= thr * x.d

\* bin_edges = np.linspace(0, 100_000, 4097): edge j is j * SpectrumMax / NumBins
\* for j in 0..NumBins.  EdgeAtMost(j, v) is bin_edges[j] <= v for an integer v.
EdgeAtMost(j, v) == j * SpectrumMax <= v * NumBins

\* np.searchsorted(bin_edges, v, 'right'): how many edges are <= v, by bisection
\* over the sorted edges lo..hi-1.
RECURSIVE SearchSorted(_, _, _)
SearchSorted(v, lo, hi) ==
  IF lo >= hi THEN lo
  ELSE LET mid == (lo + hi) \div 2
       IN  IF EdgeAtMost(mid, v) THEN SearchSorted(v, mid + 1, hi)
           ELSE SearchSorted(v, lo, mid)

\* A binning whose last bin is half-open like the others.
BinOf_halfopen(v) ==
  LET k == SearchSorted(v, 0, NumBins + 1)
  IN  IF k = 0 THEN 0 ELSE IF k <= NumBins THEN k ELSE 0

\* The bin (1..NumBins) np.histogram counts v in, 0 for none: bins are half-open,
\* a value equal to the last edge goes to the last bin.
BinOf(v) ==
  LET k == SearchSorted(v, 0, NumBins + 1)
  IN  IF k = 0 THEN 0
      ELSE IF k <= NumBins THEN k
      ELSE IF v * NumBins = NumBins * SpectrumMax THEN NumBins
      ELSE 0

RECURSIVE Tally(_, _)
Tally(counts, bins) ==
  IF bins = <<>> THEN counts
  ELSE Tally(IF Head(bins) = 0 THEN counts
             ELSE [counts EXCEPT ![Head(bins)] = @ + 1], Tail(bins))

\* The counts before any value is binned.
ZeroCounts == [b \in 1..NumBins |-> 0]

\* np.histogram(a, bins=bin_edges)[0]
histogram(a) == Tally(ZeroCounts, [i \in 1..Len(a) |-> BinOf(a[i])])

\* bin_centers = (bin_edges[:-1] + bin_edges[1:]) / 2, each as the numerator
\* over the common denominator 2 * NumBins.
bin_centers == [b \in 1..NumBins |-> (2 * b - 1) * SpectrumMax]

(***************************************************************************)
(* PSDApp.  A method is an operator from the object's fields (self) to the *)
(* fields after the call.                                                  *)
(***************************************************************************)
Self == [csv_file |-> csv_file, qlong |-> qlong, qshort |-> qshort,
         filter_checked |-> filter_checked, threshold |-> threshold,
         last_spectrum_data |-> last_spectrum_data,
         last_psd_data |-> last_psd_data, ran |-> ran]

\* The object after __init__.
NewPSDApp == [csv_file |-> <<>>, qlong |-> <<>>, qshort |-> <<>>,
              filter_checked |-> TRUE, threshold |-> ThresholdDefault,
              last_spectrum_data |-> <<<<>>, <<>>>>,
              last_psd_data |-> <<>>, ran |-> "never"]

\* A filter that keeps psd >= threshold.
Selection_ge(checked, thr, psd, qlong_valid) ==
  IF checked
  THEN LET mask == [i \in 1..Len(psd) |-> AtLeast(psd[i], thr)]
       IN  [psd_filtered |-> Compress(psd, mask),
            qlong_filtered |-> Compress(qlong_valid, mask)]
  ELSE [psd_filtered |-> psd, qlong_filtered |-> qlong_valid]

\* A filter that applies the threshold when the box is unchecked.
Selection_inverted(checked, thr, psd, qlong_valid) ==
  IF ~checked
  THEN LET mask == [i \in 1..Len(psd) |-> GreaterThan(psd[i], thr)]
       IN  [psd_filtered |-> Compress(psd, mask),
            qlong_filtered |-> Compress(qlong_valid, mask)]
  ELSE [psd_filtered |-> psd, qlong_filtered |-> qlong_valid]

\* A filter that forgets the mask on qlong.
Selection_unmasked(checked, thr, psd, qlong_valid) ==
  IF checked
  THEN LET mask == [i \in 1..Len(psd) |-> GreaterThan(psd[i], thr)]
       IN  [psd_filtered |-> Compress(psd, mask),
            qlong_filtered |-> qlong_valid]
  ELSE [psd_filtered |-> psd, qlong_filtered |-> qlong_valid]

\* update_plots, the if/else on filter_toggle.isChecked().
Selection(checked, thr, psd, qlong_valid) ==
  IF checked
  THEN LET mask == [i \in 1..Len(psd) |-> GreaterThan(psd[i], thr)]
       IN  [psd_filtered |-> Compress(psd, mask),
            qlong_filtered |-> Compress(qlong_valid, mask)]
  ELSE [psd_filtered |-> psd, qlong_filtered |-> qlong_valid]

\* update_plots, the locals up to the selection.
Locals(self) ==
  LET psd == [i \in 1..Len(self.qlong) |-> psd_of(self.qlong[i], self.qshort[i])]
      mask_valid == [i \in 1..Len(psd) |-> isfinite(psd[i])]
  IN  Selection(self.filter_checked, self.threshold,
                Compress(psd, mask_valid), Compress(self.qlong, mask_valid))

\* update_plots, the spectrum block: what it stores in last_spectrum_data.
SpectrumOf(qlong_filtered) ==
  IF Len(qlong_filtered) > 0
  THEN <<bin_centers, histogram(qlong_filtered)>>
  ELSE <<<<>>, <<>>>>

\* update_plots, the PSD block: what it stores in last_psd_data.
PsdOf(psd_filtered) == IF Len(psd_filtered) > 0 THEN psd_filtered ELSE <<>>

\* update_plots past the early return.
Recompute(self) ==
  LET sel == Locals(self)
  IN  [self EXCEPT !.last_spectrum_data = SpectrumOf(sel.qlong_filtered),
                   !.last_psd_data = PsdOf(sel.psd_filtered),
                   !.ran = "full"]

\* An update_plots that stores the selection back into self.qlong, self.qshort.
update_plots_inplace(self) ==
  IF Len(self.qlong) = 0 THEN [self EXCEPT !.ran = "early"]
  ELSE LET keep == [i \in 1..Len(self.qlong) |->
                      /\ isfinite(psd_of(self.qlong[i], self.qshort[i]))
                      /\ (self.filter_checked =>
                            GreaterThan(psd_of(self.qlong[i], self.qshort[i]), self.threshold))]
       IN  [Recompute(self) EXCEPT !.qlong = Compress(self.qlong, keep),
                                   !.qshort = Compress(self.qshort, keep)]

\* update_plots
update_plots(self) ==
  IF Len(self.qlong) = 0 THEN [self EXCEPT !.ran = "early"]
  ELSE Recompute(self)

(***************************************************************************)
(* Input files.  A file is described by what the digitizer wrote: the      *)
(* number of preamble bytes, the records, and k bytes of a cut-off record. *)
(***************************************************************************)
\* A record with the given charges; cfd_y1 is negative to exercise a signed field.
MkRecord(ql, qs) ==
  <<1, 2, 3, 4, 7, 1, 123456789, 0 - 1, 0, 0, 0, ql, qs, 0, 1, 1, 1, 0, 0, 0, 0>>

\* (qLong, qShort) of the events of the model.
Stream == << <<0, 5>>, <<1000, 300>>, <<1000, 900>>, <<500, 0 - 1>>,
             <<100000, 25000>>, <<100001, 0>> >>

EventRecords == {MkRecord(Stream[i][1], Stream[i][2]) : i \in 1..Len(Stream)}

\* Every sequence of at most MaxRecords records.
AllRecordSeqs == UNION {[1..n -> EventRecords] : n \in 0..MaxRecords}

\* The runs of at most MaxRecords consecutive events of the stream.
RecordWindows ==
  {[i \in 1..n |-> MkRecord(Stream[lo + i - 1][1], Stream[lo + i - 1][2])] :
     <<lo, n>> \in {w \in (1..Len(Stream)) \X (0..MaxRecords) : w[1] + w[2] - 1 <= Len(Stream)}}

TrailLens == {0, 1, record_size - 1}

ShortPreambles == {0, PreambleSize - 1}

FilesOf(seqs, ks) ==
  {[pre |-> PreambleSize, recs |-> r, k |-> k] : r \in seqs, k \in ks}
    \cup {[pre |-> p, recs |-> <<>>, k |-> 0] : p \in ShortPreambles}

DecodeInputs == FilesOf(AllRecordSeqs, TrailLens)

LoadInputs == FilesOf(RecordWindows, {0})

Thresholds == {ThresholdDefault, 5000, 7500}

\* The bytes of a file.
FileBytes(f) ==
  [i \in 1..f.pre |-> i]
    \o Flatten([r \in 1..Len(f.recs) |-> pack(f.recs[r])])
    \o SubSeqFrom(pack(MkRecord(1000, 300)), 1, f.k)

BinPath == [stem |-> "run", suffix |-> ".bin"]

(***************************************************************************)
(* The handlers.                                                           *)
(***************************************************************************)
\* load_file, `records = parse_bin_file(path)`, for each input file.
Parsed == [f \in LoadInputs |-> parse_bin_file(FileBytes(f))]

\* load_file, `save_to_csv(records, path)`, for each input file.
Saved == [f \in LoadInputs |-> save_to_csv(Parsed[f].records, BinPath)]

\* load_file, `read_qlong_qshort(self.csv_file)`, for each input file.
Reread == [f \in LoadInputs |-> read_qlong_qshort(Saved[f].text)]

\* load_file after the dialog returned a path: the fields after the call, the
\* local records, the exception it ends with and the files it opened.
load_file(self, f) ==
  LET parsed == Parsed[f]
      csv == Saved[f]
      arrays == Reread[f]
  IN  IF parsed.err # "none"
      THEN [self |-> self, records |-> <<>>, err |-> parsed.err, io |-> {"read:bin"}]
      ELSE [self |-> update_plots([self EXCEPT !.csv_file = <<csv.name>>,
                                               !.qlong = arrays.qlong,
                                               !.qshort = arrays.qshort]),
            records |-> parsed.records,
            err |-> "none",
            io |-> {"read:bin", "write:csv", "read:csv"}]

\* save_spectrum_data: a list has no .any(); file_path = "" is a cancelled dialog.
save_spectrum_data(self, file_path) ==
  IF self.last_spectrum_data[1] = <<>> THEN [err |-> "AttributeError", io |-> {}]
  ELSE IF ~ \E b \in 1..Len(self.last_spectrum_data[1]) : self.last_spectrum_data[1][b] # 0
  THEN [err |-> "none", io |-> {}]
  ELSE IF file_path = "" THEN [err |-> "none", io |-> {}]
  ELSE [err |-> "none", io |-> {"write:spectrum"}]

\* save_psd_data
save_psd_data(self, file_path) ==
  IF Len(self.last_psd_data) = 0 THEN [err |-> "none", io |-> {}]
  ELSE IF file_path = "" THEN [err |-> "none", io |-> {}]
  ELSE [err |-> "none", io |-> {"write:psd"}]

SetSelf(self) ==
  /\ csv_file' = self.csv_file
  /\ qlong' = self.qlong
  /\ qshort' = self.qshort
  /\ filter_checked' = self.filter_checked
  /\ threshold' = self.threshold
  /\ last_spectrum_data' = self.last_spectrum_data
  /\ last_psd_data' = self.last_psd_data
  /\ ran' = self.ran

Init ==
  /\ bin_src = <<>>
  /\ records = <<>>
  /\ csv_file = NewPSDApp.csv_file
  /\ qlong = NewPSDApp.qlong
  /\ qshort = NewPSDApp.qshort
  /\ filter_checked = NewPSDApp.filter_checked
  /\ threshold = NewPSDApp.threshold
  /\ last_spectrum_data = NewPSDApp.last_spectrum_data
  /\ last_psd_data = NewPSDApp.last_psd_data
  /\ ran = NewPSDApp.ran
  /\ lastOp = "init"
  /\ err = "none"
  /\ io = {}

\* load_button clicked, a file chosen.
Load ==
  \E f \in LoadInputs :
    LET r == load_file(Self, f)
    IN  /\ bin_src' = <<f>>
        /\ records' = r.records
        /\ SetSelf(r.self)
        /\ lastOp' = "load"
        /\ err' = r.err
        /\ io' = r.io

\* load_button clicked, the dialog cancelled: `if not path: return`.
LoadCancel ==
  /\ lastOp' = "load_cancelled"
  /\ err' = "none"
  /\ io' = {}
  /\ UNCHANGED <<bin_src, records, csv_file, qlong, qshort, filter_checked, threshold,
                 last_spectrum_data, last_psd_data, ran>>

\* filter_toggle.stateChanged -> update_plots
Toggle ==
  /\ SetSelf(update_plots([Self EXCEPT !.filter_checked = ~filter_checked]))
  /\ lastOp' = "toggle"
  /\ err' = "none"
  /\ io' = {}
  /\ UNCHANGED <<bin_src, records>>

\* threshold_input.valueChanged -> update_plots
SetThreshold ==
  \E t \in Thresholds \ {threshold} :
    /\ SetSelf(update_plots([Self EXCEPT !.threshold = t]))
    /\ lastOp' = "threshold"
    /\ err' = "none"
    /\ io' = {}
    /\ UNCHANGED <<bin_src, records>>

\* save_spectrum_btn clicked
SaveSpectrum ==
  \E file_path \in {"", "spectrum_data.csv"} :
    LET r == save_spectrum_data(Self, file_path)
    IN  /\ lastOp' = "save_spectrum"
        /\ err' = r.err
        /\ io' = r.io
        /\ UNCHANGED <<bin_src, records, csv_file, qlong, qshort, filter_checked,
                       threshold, last_spectrum_data, last_psd_data, ran>>

\* save_psd_btn clicked
SavePsd ==
  \E file_path \in {"", "psd_data.csv"} :
    LET r == save_psd_data(Self, file_path)
    IN  /\ lastOp' = "save_psd"
        /\ err' = r.err
        /\ io' = r.io
        /\ UNCHANGED <<bin_src, records, csv_file, qlong, qshort, filter_checked,
                       threshold, last_spectrum_data, last_psd_data, ran>>

Next == Load \/ LoadCancel \/ Toggle \/ SetThreshold \/ SaveSpectrum \/ SavePsd

Spec == Init /\ [][Next]_vars

(***************************************************************************)
(* The decoder alone: a file is picked, then parse_bin_file runs on it.    *)
(***************************************************************************)
InitDecode ==
  /\ bin_src \in {<<f>> : f \in DecodeInputs}
  /\ records = <<>>
  /\ csv_file = NewPSDApp.csv_file
  /\ qlong = NewPSDApp.qlong
  /\ qshort = NewPSDApp.qshort
  /\ filter_checked = NewPSDApp.filter_checked
  /\ threshold = NewPSDApp.threshold
  /\ last_spectrum_data = NewPSDApp.last_spectrum_data
  /\ last_psd_data = NewPSDApp.last_psd_data
  /\ ran = NewPSDApp.ran
  /\ lastOp = "init"
  /\ err = "none"
  /\ io = {}

Decode ==
  /\ lastOp = "init"
  /\ LET parsed == parse_bin_file(FileBytes(bin_src[1]))
     IN  /\ records' = parsed.records
         /\ err' = parsed.err
  /\ lastOp' = "parse"
  /\ io' = {"read:bin"}
  /\ UNCHANGED <<bin_src, csv_file, qlong, qshort, filter_checked, threshold,
                 last_spectrum_data, last_psd_data, ran>>

NextDecode == Decode

SpecDecode == InitDecode /\ [][NextDecode]_vars

(***************************************************************************)
(* Vocabulary of the properties, stated on the state alone.                *)
(***************************************************************************)
\* The file of the last load, and the charges of its records.
SrcRecs == IF bin_src = <<>> THEN <<>> ELSE bin_src[1].recs
SrcShort == bin_src # <<>> /\ bin_src[1].pre < PreambleSize
QLongField == 12
QShortField == 13

\* The records of a sequence that pass qLong > 0 and qShort >= 0, in order.
ValidRecs(recs) == SelectSeq(recs, LAMBDA r : r[QLongField] > 0 /\ r[QShortField] >= 0)

\* Retained event i has psd = 1 - qshort/qlong above, or equal to, the threshold.
Exceeds(i) == (qlong[i] - qshort[i]) * ThresholdScale > threshold * qlong[i]
EqualsThreshold(i) == (qlong[i] - qshort[i]) * ThresholdScale = threshold * qlong[i]

\* The indices of the retained events that the current filter settings select.
RetainedIdx == {i \in 1..Len(qlong) : ~filter_checked \/ Exceeds(i)}

\* The j-th selected index, in dataset order.
NthRetained(j) == CHOOSE i \in RetainedIdx : Cardinality({k \in RetainedIdx : k <= i}) = j

\* The psd values of the selected events, in dataset order.
ExpectedPsd ==
  [j \in 1..Cardinality(RetainedIdx) |->
     Frac(qlong[NthRetained(j)] - qshort[NthRetained(j)], qlong[NthRetained(j)])]

\* v lies in bin b of linspace(0, SpectrumMax, NumBins + 1): half-open bins, the
\* last one closed.
InBin(v, b) ==
  \/ (b - 1) * SpectrumMax <= v * NumBins /\ v * NumBins < b * SpectrumMax
  \/ b = NumBins /\ v = SpectrumMax

InRange(v) == 0 <= v /\ v <= SpectrumMax

\* The bin of an in-range v, by division.
BinByDivision(v) == IF v = SpectrumMax THEN NumBins ELSE ((v * NumBins) \div SpectrumMax) + 1

SpectrumEmpty == last_spectrum_data = <<<<>>, <<>>>>
Counts == last_spectrum_data[2]

\* The bins of a table of counts that hold something.
NonZeroBins(c) == {b \in 1..Len(c) : c[b] # 0}

\* The midpoints of consecutive edges j * SpectrumMax / NumBins, as numerators
\* over 2 * NumBins.
EdgeMidpoints == [b \in 1..NumBins |-> (b - 1) * SpectrumMax + b * SpectrumMax]

TotalCount == SumSeq(SelectSeq(Counts, LAMBDA x : x # 0))

\* The counts the selected events give when each in-range qLong adds one to the
\* bin found by division.
RECURSIVE CountInto(_, _)
CountInto(c, idx) ==
  IF idx = {} THEN c
  ELSE LET i == CHOOSE x \in idx : TRUE
       IN  CountInto([c EXCEPT ![BinByDivision(qlong[i])] = @ + 1], idx \ {i})

ExpectedCounts == CountInto(ZeroCounts, {i \in RetainedIdx : InRange(qlong[i])})

RECURSIVE IsSubSeq(_, _)
IsSubSeq(s, t) ==
  IF s = <<>> THEN TRUE
  ELSE IF t = <<>> THEN FALSE
  ELSE IF Head(s) = Head(t) THEN IsSubSeq(Tail(s), Tail(t))
  ELSE IsSubSeq(s, Tail(t))

(***************************************************************************)
(* C1.  A file of the 8-byte preamble, N whole records and K < record_size *)
(* further bytes decodes to exactly those N records, in file order, for    *)
(* every K, without an error.                                              *)
(***************************************************************************)
C1_DecodeWholeRecords ==
  (lastOp = "parse" /\ bin_src[1].pre = PreambleSize /\ bin_src[1].k < record_size)
    => (err = "none" /\ Len(records) = Len(bin_src[1].recs) /\ records = bin_src[1].recs)

C1_Witness ==
  /\ lastOp = "parse"
  /\ bin_src[1].pre = PreambleSize
  /\ bin_src[1].k = record_size - 1
  /\ Len(bin_src[1].recs) >= 2
  /\ records = bin_src[1].recs

(***************************************************************************)
(* C2.  On the load path only events with qLong > 0, qShort >= 0 and a     *)
(* finite psd are retained and reach the PSD set and the spectrum; an      *)
(* event with qLong = 0 reaches neither; the load raises nothing.          *)
(***************************************************************************)
C2_OnlyValidEventsContribute ==
  /\ Len(qlong) = Len(qshort)
  /\ \A i \in 1..Len(qlong) : qlong[i] > 0 /\ qshort[i] >= 0
  /\ lastOp = "load" =>
       /\ err = "none"
       /\ qlong = [i \in 1..Len(ValidRecs(SrcRecs)) |-> ValidRecs(SrcRecs)[i][QLongField]]
       /\ qshort = [i \in 1..Len(ValidRecs(SrcRecs)) |-> ValidRecs(SrcRecs)[i][QShortField]]
  /\ ran = "full" =>
       /\ \A j \in 1..Len(last_psd_data) :
            /\ last_psd_data[j].d # 0
            /\ \E r \in 1..Len(SrcRecs) :
                 /\ SrcRecs[r][QLongField] > 0 /\ SrcRecs[r][QShortField] >= 0
                 /\ last_psd_data[j].n * SrcRecs[r][QLongField]
                      = last_psd_data[j].d * (SrcRecs[r][QLongField] - SrcRecs[r][QShortField])
       /\ \A b \in NonZeroBins(Counts) :
            \/ Counts[b] < 0
            \/ Counts[b] <= Cardinality({r \in 1..Len(SrcRecs) :
                                /\ SrcRecs[r][QLongField] > 0 /\ SrcRecs[r][QShortField] >= 0
                                /\ InBin(SrcRecs[r][QLongField], b)})

C2_Witness ==
  /\ lastOp = "load"
  /\ ran = "full"
  /\ err = "none"
  /\ \E r \in 1..Len(SrcRecs) : SrcRecs[r][QLongField] = 0
  /\ Len(last_psd_data) = 1
  /\ TotalCount = 1

(***************************************************************************)
(* C3.  After a recompute the PSD set is, with the filter enabled, exactly *)
(* the valid events with psd strictly above the threshold (psd equal to    *)
(* the threshold is excluded) and, with it disabled, all valid events, in  *)
(* dataset order.                                                          *)
(***************************************************************************)
C3_ThresholdFilter ==
  ran = "full" =>
    /\ last_psd_data = ExpectedPsd
    /\ filter_checked =>
         \A j \in 1..Len(last_psd_data) :
           last_psd_data[j].n * ThresholdScale > threshold * last_psd_data[j].d
    /\ ~filter_checked => Len(last_psd_data) = Len(qlong)

C3_Witness ==
  /\ ran = "full"
  /\ filter_checked
  /\ \E i \in 1..Len(qlong) : EqualsThreshold(i)
  /\ \E i \in 1..Len(qlong) : Exceeds(i)
  /\ Len(last_psd_data) = 1

(***************************************************************************)
(* C4.  The spectrum and the PSD set come from the same selection: they    *)
(* are empty together, the spectrum never counts more events than the PSD  *)
(* set holds, and after a recompute each bin counts exactly the selected   *)
(* events whose qLong lies in it.                                          *)
(***************************************************************************)
C4_SameSubset ==
  /\ (last_psd_data = <<>>) <=> SpectrumEmpty
  /\ ~SpectrumEmpty => TotalCount <= Len(last_psd_data)
  /\ ran = "full" =>
       /\ Len(last_psd_data) = Cardinality(RetainedIdx)
       /\ ~SpectrumEmpty => Counts = ExpectedCounts

C4_Witness ==
  /\ ran = "full"
  /\ filter_checked
  /\ RetainedIdx # {}
  /\ \E i \in 1..Len(qlong) : i \notin RetainedIdx /\ InRange(qlong[i])
  /\ ~SpectrumEmpty

(***************************************************************************)
(* C5.  The stored tables are a function of the current dataset, filter    *)
(* flag and threshold alone; a load with zero valid events leaves both     *)
(* stored tables empty.                                                    *)
(***************************************************************************)
C5_TablesFollowCurrentInputs ==
  /\ last_psd_data = ExpectedPsd
  /\ Len(qlong) = 0 => SpectrumEmpty

(***************************************************************************)
(* C6.  A non-empty selection gives 4096 bins whose counts sum to the      *)
(* number of selected qLong values in [0, 100000]; 100000 itself is        *)
(* counted in the last bin and larger values in none.                      *)
(***************************************************************************)
C6_SpectrumCounts ==
  (ran = "full" /\ RetainedIdx # {}) =>
    /\ Len(last_spectrum_data[1]) = NumBins
    /\ Len(Counts) = NumBins
    /\ TotalCount = Cardinality({i \in RetainedIdx : InRange(qlong[i])})
    /\ Counts[NumBins] >= Cardinality({i \in RetainedIdx : qlong[i] = SpectrumMax})
    /\ \A i \in RetainedIdx :
         InRange(qlong[i]) =>
           /\ InBin(qlong[i], BinByDivision(qlong[i]))
           /\ Counts[BinByDivision(qlong[i])] >= 1
    /\ last_spectrum_data[1] = EdgeMidpoints

C6_Witness ==
  /\ ran = "full"
  /\ \E i \in RetainedIdx : qlong[i] = SpectrumMax
  /\ \E i \in RetainedIdx : qlong[i] > SpectrumMax
  /\ Counts[NumBins] = 1
  /\ TotalCount < Cardinality(RetainedIdx)

(***************************************************************************)
(* C7, as claimed.  A load of a file shorter than the 8-byte preamble ends *)
(* in a FormatError reported to the caller, not in an empty record         *)
(* sequence.                                                               *)
(***************************************************************************)
C7_ShortInputIsFormatError ==
  (lastOp = "load" /\ SrcShort) => err = "FormatError"

(***************************************************************************)
(* C7, amended.  A load of a file shorter than the 8-byte preamble raises  *)
(* nothing: parse_bin_file returns no records, the CSV is written with the *)
(* header alone, the retained dataset is empty and update_plots returns    *)
(* early.                                                                  *)
(***************************************************************************)
C7_ShortInputLoadsNothing ==
  (lastOp = "load" /\ SrcShort) =>
    /\ err = "none"
    /\ records = <<>>
    /\ csv_file # <<>>
    /\ io = {"read:bin", "write:csv", "read:csv"}
    /\ qlong = <<>> /\ qshort = <<>>
    /\ ran = "early"

C7_Witness ==
  /\ lastOp = "load"
  /\ SrcShort
  /\ bin_src[1].pre > 0
  /\ err = "none"
  /\ records = <<>>

(***************************************************************************)
(* C8.  Switching the filter from enabled to disabled removes no event     *)
(* from the PSD set and lowers no spectrum bin count.                      *)
(***************************************************************************)
C8_DisablingOnlyGrows ==
  [][(filter_checked /\ ~filter_checked') =>
       /\ IsSubSeq(last_psd_data, last_psd_data')
       /\ \A b \in NonZeroBins(Counts) :
            Len(Counts') = Len(Counts) /\ Counts[b] <= Counts'[b]]_vars

C8_Witness ==
  /\ lastOp = "toggle"
  /\ ~filter_checked
  /\ ran = "full"
  /\ \E i \in 1..Len(qlong) : ~Exceeds(i)
  /\ \E i \in 1..Len(qlong) : Exceeds(i)
  /\ Len(last_psd_data) = Len(qlong)

(***************************************************************************)
(* C9.  With empty stored tables a save-spectrum or save-PSD request       *)
(* returns without writing a file and without an error.                    *)
(***************************************************************************)
C9_SaveOnEmptyIsNoOp ==
  (lastOp \in {"save_spectrum", "save_psd"} /\ SpectrumEmpty /\ last_psd_data = <<>>)
    => (err = "none" /\ io = {})

(***************************************************************************)
(* C10.  A recompute after a filter toggle or a threshold change leaves    *)
(* qlong, qshort and csv_file alone and opens no file; only a load changes *)
(* the retained dataset, and the new dataset is the valid events of the    *)
(* loaded file alone.                                                      *)
(***************************************************************************)
C10_RecomputeKeepsDataset ==
  [][/\ lastOp' \in {"toggle", "threshold"} =>
          /\ qlong' = qlong /\ qshort' = qshort /\ csv_file' = csv_file
          /\ records' = records /\ bin_src' = bin_src
          /\ io' = {}
     /\ (qlong' # qlong \/ qshort' # qshort \/ csv_file' # csv_file) => lastOp' = "load"
     /\ lastOp' = "load" =>
          /\ Len(qlong') = Len(ValidRecs(bin_src'[1].recs))
          /\ \A i \in 1..Len(qlong') :
               /\ qlong'[i] = ValidRecs(bin_src'[1].recs)[i][QLongField]
               /\ qshort'[i] = ValidRecs(bin_src'[1].recs)[i][QShortField]]_vars

C10_Witness ==
  /\ lastOp = "threshold"
  /\ ran = "full"
  /\ filter_checked
  /\ Len(qlong) = 2
  /\ Len(last_psd_data) = 1
  /\ io = {}

====
